---- MODULE Spec2Model ----
(***************************************************************************)
(* Model of the album buffer of wuzapi (album_buffer.go): a store of       *)
(* pending albums guarded by one mutex, one time.Timer per pending album   *)
(* whose callback runs flushAlbum in a goroutine of its own, and the       *)
(* webhook call made outside the mutex.                                    *)
(*                                                                         *)
(* Time is relative: Tick is one second passing.  A timer holds the        *)
(* seconds left before it may fire; the Go runtime never fires a timer     *)
(* early and may run its callback arbitrarily late.                        *)
(***************************************************************************)
EXTENDS Integers, Sequences, FiniteSets, Bags, TLC

\* ab.waitSeconds, the debounce duration in seconds (configurable).
waitSeconds == 2
\* At most this many AddMessage calls in a run.
MaxAdds == 3
\* At most this many CancelAlbum calls in a run.
MaxCancels == 2

\* Callers of the exported methods (goroutines of the event handler).
Procs == {"p1", "p2"}
\* Album ids (parentMessageKey values).
Keys == {"k1", "k2"}
\* AlbumMessage values handed to AddMessage.
Msg1 ==
  [ID |-> "m1", URL |-> "u1", Base64 |-> "", MimeType |-> "image/jpeg",
   FileName |-> "m1.jpg"]
Msg2 ==
  [ID |-> "m2", URL |-> "", Base64 |-> "b64", MimeType |-> "video/mp4",
   FileName |-> "m2.mp4"]

\* The msg of the n-th AddMessage call of a run.  seq is history: it tells
\* the items of a run apart, which the fields of AlbumMessage need not.
Item(msg, n) ==
  [ID |-> msg.ID, URL |-> msg.URL, Base64 |-> msg.Base64,
   MimeType |-> msg.MimeType, FileName |-> msg.FileName, seq |-> n]

\* The *AlbumData a caller passes as metadata: a filled one and a blank one
\* (zero values, no client), with a caption.
Filled(caption) ==
  [ChatJID |-> "chat1", SenderJID |-> "lid1", SenderAlt |-> "alt1",
   Caption |-> caption, Timestamp |-> 1, UserID |-> "u1", Token |-> "t1",
   MyCli |-> "cli1"]
Blank(caption) ==
  [ChatJID |-> "", SenderJID |-> "", SenderAlt |-> "",
   Caption |-> caption, Timestamp |-> 0, UserID |-> "", Token |-> "",
   MyCli |-> "nil"]

\* The (msg, metadata) arguments of the AddMessage calls of a run.
Inputs ==
  { [msg |-> Msg1, metadata |-> Blank("")],
    [msg |-> Msg2, metadata |-> Filled("a")],
    [msg |-> Msg1, metadata |-> Filled("b")] }

VARIABLES
  albums,      \* ab.albums: a function whose domain is the ids in the map
  lock,        \* ab.RWMutex, write side: "free" or the caller inside AddMessage
  frames,      \* arguments and locals of the AddMessage call holding the
               \* mutex (inWindow is history: whether the call entered less
               \* than waitSeconds after the previous one of its id)
  pending,     \* bag of flushAlbum goroutines started by a timer, not yet
               \* locked (from and seen are history: the album whose timer
               \* fired and how many messages had arrived for it by then)
  delivering,  \* bag of albums removed by flushAlbum, webhook not yet sent
  webhooks,    \* sequence of sendEventWithWebHook calls made
  readers,     \* the GetPendingCount calls holding the read lock, each with
               \* the length it read
  adds,        \* number of AddMessage calls so far
  cancels,     \* number of CancelAlbum calls so far
  nextPtr,     \* history: next fresh *AlbumData identity
  cancelled,   \* history: identities of albums removed by CancelAlbum
  sinceAdd,    \* history: seconds (capped) since the last AddMessage of a key
               \* armed its timer, with no CancelAlbum of the key since
  envelope,    \* the msgContext argument of a HasParentMessageKey call
  extracted    \* what that call returned, once it has

\* The variables of a HasParentMessageKey call, which no method of the
\* album buffer reads or writes.
extraction == <<envelope, extracted>>

vars == <<albums, lock, frames, pending, delivering, webhooks, readers,
          adds, cancels, nextPtr, cancelled, sinceAdd, extraction>>

Min(a, b) == IF a < b THEN a ELSE b

------------------------------------------------------------------------------
(* time.Timer created by time.AfterFunc *)

\* time.AfterFunc(d, f): a running timer with d seconds to go.
AfterFunc(d) == [armed |-> TRUE, remaining |-> d]

\* Mutant of Reset: the timer is stopped and not started again.
ResetStops(t, d) == [armed |-> FALSE, remaining |-> 0]

\* Timer.Reset(d): the timer runs again for the full d, whether it was
\* running, had fired or had been stopped.
Reset(t, d) == [armed |-> TRUE, remaining |-> d]

\* Timer.Stop(): the timer no longer fires; a callback already started is
\* not stopped.
Stop(t) == [armed |-> FALSE, remaining |-> 0]

\* One second passes for a timer.
TickTimer(t) ==
  IF t.armed /\ t.remaining > 0 THEN [t EXCEPT !.remaining = @ - 1] ELSE t

------------------------------------------------------------------------------
(* AddMessage *)

\* No callback: the value of by in an album that no flushAlbum has removed.
NoCallback == [albumID |-> "", from |-> 0, seen |-> 0]

\* The new AlbumData of lines 94-105 with the timer of line 109.  ptr and
\* by are history: the identity of the album, and the callback whose
\* flushAlbum removed it.
NewAlbum(albumID, metadata, ptr) ==
  [ AlbumID   |-> albumID,
    ChatJID   |-> metadata.ChatJID,
    SenderJID |-> metadata.SenderJID,
    SenderAlt |-> metadata.SenderAlt,
    Caption   |-> metadata.Caption,
    Timestamp |-> metadata.Timestamp,
    Messages  |-> << >>,
    Timer     |-> AfterFunc(waitSeconds),
    UserID    |-> metadata.UserID,
    Token     |-> metadata.Token,
    MyCli     |-> metadata.MyCli,
    ptr       |-> ptr,
    by        |-> NoCallback ]

\* Mutant of MergeCaption: a later caption replaces the one there.
MergeCaptionOverwrites(current, incoming) ==
  IF incoming # "" THEN incoming ELSE current

\* Lines 120-122: the caption is taken only if none was there.
MergeCaption(current, incoming) ==
  IF current = "" /\ incoming # "" THEN incoming ELSE current

\* Mutant of JoinAlbum: the later call also takes over the chat, the
\* senders and the client of its metadata.
JoinAlbumReseeds(album, metadata) ==
  [album EXCEPT !.Caption = MergeCaption(@, metadata.Caption),
                !.Timer = Reset(@, waitSeconds),
                !.ChatJID = metadata.ChatJID,
                !.SenderJID = metadata.SenderJID,
                !.SenderAlt = metadata.SenderAlt,
                !.MyCli = metadata.MyCli]

\* Mutant of JoinAlbum: the later call starts the list of messages anew.
JoinAlbumRestarts(album, metadata) ==
  [album EXCEPT !.Caption = MergeCaption(@, metadata.Caption),
                !.Timer = Reset(@, waitSeconds),
                !.Messages = << >>]

\* Lines 119-127: a later message of an album already in the map.
JoinAlbum(album, metadata) ==
  [album EXCEPT !.Caption = MergeCaption(@, metadata.Caption),
                !.Timer = Reset(@, waitSeconds)]

\* Mutant of AppendMessage: the message is put in front.
AppendMessagePrepends(album, msg) ==
  [album EXCEPT !.Messages = <<msg>> \o @]

\* Line 131.
AppendMessage(album, msg) ==
  [album EXCEPT !.Messages = Append(@, msg)]

\* Mutant of CanLock: flushAlbum unlocks only when it returns (a deferred
\* Unlock), so the mutex is held while an album is being delivered.
CanLockAfterDelivery ==
  lock = "free" /\ DOMAIN readers = {} /\ delivering = EmptyBag

\* Mutant of CanLock: Lock taken as RLock, which keeps no other caller out.
CanLockShared == TRUE

\* ab.Lock() returns: no writer and no reader holds the mutex.
CanLock == lock = "free" /\ DOMAIN readers = {}

\* ab.albums[albumID] = album
Store(m, albumID, album) ==
  [x \in DOMAIN m \cup {albumID} |-> IF x = albumID THEN album ELSE m[x]]

\* delete(ab.albums, albumID)
Delete(m, albumID) ==
  [x \in DOMAIN m \ {albumID} |-> m[x]]

\* Mutant of IsFirst: the test is inverted.
IsFirstInverted(exists) == exists

\* Lines 88-93: isFirst is set when the id was not in the map.
IsFirst(exists) == ~exists

\* AddMessage, lines 85-128: takes the mutex, looks the album up, creates
\* it and starts its timer, or merges the caption and resets the timer.
AddLookup(p, albumID, msg, metadata) ==
  /\ CanLock
  /\ adds < MaxAdds
  /\ LET exists == albumID \in DOMAIN albums
         album == IF exists THEN JoinAlbum(albums[albumID], metadata)
                  ELSE NewAlbum(albumID, metadata, nextPtr)
     IN /\ albums' = Store(albums, albumID, album)
        /\ nextPtr' = IF exists THEN nextPtr ELSE nextPtr + 1
        /\ frames' = Store(frames, p,
                       [albumID |-> albumID, msg |-> msg, metadata |-> metadata,
                        isFirst |-> IsFirst(exists),
                        inWindow |-> sinceAdd[albumID] < waitSeconds])
  /\ lock' = p
  /\ adds' = adds + 1
  /\ sinceAdd' = [sinceAdd EXCEPT ![albumID] = 0]
  /\ UNCHANGED <<pending, delivering, webhooks, readers, cancels, cancelled,
                 extraction>>

\* AddMessage, lines 130-139: appends the message, returns isFirst and
\* releases the mutex (deferred Unlock).
AddAppend(p) ==
  /\ lock = p
  /\ LET f == frames[p]
     IN albums' = [albums EXCEPT ![f.albumID] = AppendMessage(@, f.msg)]
  /\ frames' = Delete(frames, p)
  /\ lock' = "free"
  /\ UNCHANGED <<pending, delivering, webhooks, readers, adds, cancels,
                 nextPtr, cancelled, sinceAdd, extraction>>

------------------------------------------------------------------------------
(* the timers *)

\* The messages of the album of k that have arrived: those in it and the
\* one of an AddMessage(k) inside the critical section.
Arrived(k) ==
  Len(albums[k].Messages)
    + Cardinality({p \in DOMAIN frames : frames[p].albumID = k})

\* The runtime fires the timer of an album: it starts a goroutine running
\* the closure of lines 109-111, flushAlbum(albumID).
TimerFire(k) ==
  /\ k \in DOMAIN albums
  /\ albums[k].Timer.armed
  /\ albums[k].Timer.remaining = 0
  /\ albums' = [albums EXCEPT ![k].Timer.armed = FALSE]
  /\ pending' = pending (+) SetToBag({[albumID |-> k, from |-> albums[k].ptr,
                                        seen |-> Arrived(k)]})
  /\ UNCHANGED <<lock, frames, delivering, webhooks, readers, adds, cancels,
                 nextPtr, cancelled, sinceAdd, extraction>>

\* One second passes.
Tick ==
  /\ albums' = [k \in DOMAIN albums |->
                  [albums[k] EXCEPT !.Timer = TickTimer(@)]]
  /\ sinceAdd' = [k \in Keys |-> Min(sinceAdd[k] + 1, waitSeconds)]
  /\ UNCHANGED <<lock, frames, pending, delivering, webhooks, readers, adds,
                 cancels, nextPtr, cancelled, extraction>>

------------------------------------------------------------------------------
(* flushAlbum *)

\* time.Time.Format(time.RFC3339) of the two timestamps of Seeds.
FormatRFC3339(t) ==
  IF t = 0 THEN "0001-01-01T00:00:00Z" ELSE "2026-02-04T15:42:57+07:00"

\* Mutant of BuildPayload: the caption is left out.
BuildPayloadDropsCaption(album) ==
  [ Type        |-> "MessageAlbum",
    AlbumID     |-> album.AlbumID,
    Sender      |-> album.SenderAlt,
    SenderLid   |-> album.SenderJID,
    Chat        |-> album.ChatJID,
    Caption     |-> "",
    Timestamp   |-> FormatRFC3339(album.Timestamp),
    TotalImages |-> Len(album.Messages),
    Images      |-> album.Messages ]

\* Lines 167-177.
BuildPayload(album) ==
  [ Type        |-> "MessageAlbum",
    AlbumID     |-> album.AlbumID,
    Sender      |-> album.SenderAlt,
    SenderLid   |-> album.SenderJID,
    Chat        |-> album.ChatJID,
    Caption     |-> album.Caption,
    Timestamp   |-> FormatRFC3339(album.Timestamp),
    TotalImages |-> Len(album.Messages),
    Images      |-> album.Messages ]

\* Lines 181-190.
Postmap(payload) ==
  [ type        |-> "MessageAlbum",
    albumId     |-> payload.AlbumID,
    sender      |-> payload.Sender,
    senderLid   |-> payload.SenderLid,
    chat        |-> payload.Chat,
    caption     |-> payload.Caption,
    timestamp   |-> payload.Timestamp,
    totalImages |-> payload.TotalImages,
    images      |-> payload.Images ]

\* Mutant of FlushRemove: the flush empties the map.
FlushRemoveAll(m, albumID) == << >>

\* Mutant of FlushRemove: the delete of line 157 is forgotten.
FlushRemoveKeeps(m, albumID) == m

\* Lines 151-157: what flushAlbum does to the map when it finds the album.
FlushRemove(m, albumID) == Delete(m, albumID)

\* Mutant of FlushLocked: flushAlbum works on a copy of the album taken
\* when its timer fired, so without the messages that arrived since.
FlushLockedStaleCopy(cb) ==
  /\ CanLock
  /\ BagIn(cb, pending)
  /\ pending' = pending (-) SetToBag({cb})
  /\ IF cb.albumID \in DOMAIN albums
       THEN LET album ==
                  [albums[cb.albumID] EXCEPT
                     !.Timer = Stop(@), !.by = cb,
                     !.Messages = SubSeq(@, 1, Min(cb.seen, Len(@)))]
            IN /\ albums' = FlushRemove(albums, cb.albumID)
               /\ delivering' = delivering (+) SetToBag({album})
       ELSE UNCHANGED <<albums, delivering>>
  /\ UNCHANGED <<lock, frames, webhooks, readers, adds, cancels, nextPtr,
                 cancelled, sinceAdd, extraction>>

\* flushAlbum, lines 144-158: a goroutine started by a timer takes the
\* mutex; it returns if the id is not in the map, and otherwise stops the
\* timer, deletes the id and keeps the album for the webhook.
FlushLocked(cb) ==
  /\ CanLock
  /\ BagIn(cb, pending)
  /\ pending' = pending (-) SetToBag({cb})
  /\ IF cb.albumID \in DOMAIN albums
       THEN LET album == [albums[cb.albumID] EXCEPT !.Timer = Stop(@),
                                                    !.by = cb]
            IN /\ albums' = FlushRemove(albums, cb.albumID)
               /\ delivering' = delivering (+) SetToBag({album})
       ELSE UNCHANGED <<albums, delivering>>
  /\ UNCHANGED <<lock, frames, webhooks, readers, adds, cancels, nextPtr,
                 cancelled, sinceAdd, extraction>>

\* sendEventWithWebHook(album.MyCli, postmap, ""), line 192.
SendEvent(log, album) ==
  Append(log, [mycli |-> album.MyCli, postmap |-> Postmap(BuildPayload(album)),
               path |-> "", ptr |-> album.ptr, by |-> album.by])

\* Mutant of FlushSend: the test of line 180 is forgotten.
FlushSendAlways(album) ==
  /\ BagIn(album, delivering)
  /\ delivering' = delivering (-) SetToBag({album})
  /\ webhooks' = SendEvent(webhooks, album)
  /\ UNCHANGED <<albums, lock, frames, pending, readers, adds, cancels,
                 nextPtr, cancelled, sinceAdd, extraction>>

\* flushAlbum, lines 160-193, outside the mutex: builds the payload and
\* sends the webhook if the album has a client.
FlushSend(album) ==
  /\ BagIn(album, delivering)
  /\ delivering' = delivering (-) SetToBag({album})
  /\ webhooks' = IF album.MyCli # "nil" THEN SendEvent(webhooks, album)
                 ELSE webhooks
  /\ UNCHANGED <<albums, lock, frames, pending, readers, adds, cancels,
                 nextPtr, cancelled, sinceAdd, extraction>>

------------------------------------------------------------------------------
(* CancelAlbum and GetPendingCount *)

\* Mutant of CancelRemove: an id that is not in the map empties the map.
CancelRemoveAny(m, albumID) ==
  IF albumID \in DOMAIN m THEN Delete(m, albumID) ELSE << >>

\* Lines 201-207: what CancelAlbum does to the map; nothing if the id is
\* not in it.
CancelRemove(m, albumID) ==
  IF albumID \in DOMAIN m THEN Delete(m, albumID) ELSE m

\* CancelAlbum, lines 197-208, the whole call under the mutex.
CancelAlbum(p, albumID) ==
  /\ CanLock
  /\ cancels < MaxCancels
  /\ cancels' = cancels + 1
  /\ albums' = CancelRemove(albums, albumID)
  /\ cancelled' = IF albumID \in DOMAIN albums
                  THEN cancelled \cup {albums[albumID].ptr} ELSE cancelled
  /\ sinceAdd' = [sinceAdd EXCEPT ![albumID] = waitSeconds]
  /\ UNCHANGED <<lock, frames, pending, delivering, webhooks, readers, adds,
                 nextPtr, extraction>>

\* Mutant of PendingCount: the length is one too many.
PendingCountOffByOne(m) == Cardinality(DOMAIN m) + 1

\* len(ab.albums), line 214.
PendingCount(m) == Cardinality(DOMAIN m)

\* ab.RLock() returns: no writer holds the mutex and none is blocked in
\* Lock (sync.RWMutex keeps new readers out while a writer waits); the
\* flushAlbum goroutines started are such writers.  Other readers may hold it.
CanRLock == lock = "free" /\ pending = EmptyBag

\* GetPendingCount, lines 212-214: takes the read lock and reads the length
\* of the map.
GetPendingCount(p) ==
  /\ CanRLock
  /\ p \notin DOMAIN readers
  /\ readers' = Store(readers, p, PendingCount(albums))
  /\ UNCHANGED <<albums, lock, frames, pending, delivering, webhooks, adds,
                 cancels, nextPtr, cancelled, sinceAdd, extraction>>

\* GetPendingCount, lines 213-215: returns the length read and releases the
\* read lock (deferred RUnlock).
ReturnCount(p) ==
  /\ p \in DOMAIN readers
  /\ readers' = Delete(readers, p)
  /\ UNCHANGED <<albums, lock, frames, pending, delivering, webhooks, adds,
                 cancels, nextPtr, cancelled, sinceAdd, extraction>>

------------------------------------------------------------------------------
(* HasParentMessageKey *)

\* A Go value of type interface{} or map[string]interface{}: nil, a string,
\* a value of another type, or a map from strings to such values.
NilValue == [kind |-> "nil", str |-> "", m |-> << >>]
Str(s) == [kind |-> "string", str |-> s, m |-> << >>]
Number == [kind |-> "int", str |-> "", m |-> << >>]
MapOf(f) == [kind |-> "map", str |-> "", m |-> f]

\* The maps with or without the entry key (a value of vals) and with or
\* without the entry other.
Entries(key, vals, other) ==
  LET extra == other :> Str("x")
  IN {<< >>, extra}
       \cup {key :> v : v \in vals}
       \cup {(key :> v) @@ extra : v \in vals}

\* The values the ID of a parentMessageKey may have.
IDValues ==
  {NilValue, Str(""), Str("k1"), Str("k2"), Number, MapOf(<< >>)}

\* The values of parentMessageKey, of messageAssociation and of msgContext.
ParentKeys ==
  {MapOf(f) : f \in Entries("ID", IDValues, "id")}
Associations ==
  {MapOf(f) : f \in Entries("parentMessageKey",
                            {NilValue, Str("k1")} \cup ParentKeys,
                            "associationType")}
Envelopes ==
  {NilValue}
    \cup {MapOf(f) : f \in Entries("messageAssociation",
                                   {NilValue, Str("k1")} \cup Associations,
                                   "conversation")}

\* v[key] of a Go map: the zero value, nil, for a key that is not in it.
Index(v, key) == IF key \in DOMAIN v.m THEN v.m[key] ELSE NilValue

\* The results of HasParentMessageKey.
NotFound == [called |-> TRUE, id |-> "", ok |-> FALSE]
Found(id) == [called |-> TRUE, id |-> id, ok |-> TRUE]
NotCalled == [called |-> FALSE, id |-> "", ok |-> FALSE]

\* Mutant of HasParentMessageKey: the test id != "" is forgotten.
HasParentMessageKeyAnyString(msgContext) ==
  IF msgContext.kind = "nil" THEN NotFound
  ELSE LET msgAssoc == Index(msgContext, "messageAssociation")
           parentKey == Index(msgAssoc, "parentMessageKey")
           id == Index(parentKey, "ID")
       IN IF msgAssoc.kind = "map" /\ parentKey.kind = "map"
             /\ id.kind = "string"
          THEN Found(id.str) ELSE NotFound

\* HasParentMessageKey, lines 218-233: each x, ok := v.(T) is a test of
\* the kind of v.
HasParentMessageKey(msgContext) ==
  IF msgContext.kind = "nil" THEN NotFound
  ELSE LET msgAssoc == Index(msgContext, "messageAssociation")
       IN IF msgAssoc.kind = "map"
          THEN LET parentKey == Index(msgAssoc, "parentMessageKey")
               IN IF parentKey.kind = "map"
                  THEN LET id == Index(parentKey, "ID")
                       IN IF id.kind = "string" /\ id.str # ""
                          THEN Found(id.str) ELSE NotFound
                  ELSE NotFound
          ELSE NotFound

\* A call of HasParentMessageKey(envelope) returns.
Extract ==
  /\ ~extracted.called
  /\ extracted' = HasParentMessageKey(envelope)
  /\ envelope' = envelope
  /\ UNCHANGED <<albums, lock, frames, pending, delivering, webhooks,
                 readers, adds, cancels, nextPtr, cancelled, sinceAdd>>

------------------------------------------------------------------------------

\* InitAlbumBuffer, lines 60-65: an empty map.
InitAlbumBuffer ==
  /\ albums = << >>
  /\ lock = "free"
  /\ frames = << >>
  /\ pending = EmptyBag
  /\ delivering = EmptyBag
  /\ webhooks = << >>
  /\ readers = << >>
  /\ adds = 0
  /\ cancels = 0
  /\ nextPtr = 1
  /\ cancelled = {}
  /\ sinceAdd = [k \in Keys |-> waitSeconds]

\* The program after InitAlbumBuffer, no HasParentMessageKey call under way.
Init ==
  /\ InitAlbumBuffer
  /\ envelope = NilValue
  /\ extracted = NotCalled

\* The steps that change the store or deliver.
Writes ==
  \/ \E p \in Procs, k \in Keys, in \in Inputs :
       AddLookup(p, k, Item(in.msg, adds + 1), in.metadata)
  \/ \E p \in Procs : AddAppend(p)
  \/ \E k \in Keys : TimerFire(k)
  \/ Tick
  \/ \E cb \in BagToSet(pending) : FlushLocked(cb)
  \/ \E album \in BagToSet(delivering) : FlushSend(album)
  \/ \E p \in Procs, k \in Keys : CancelAlbum(p, k)

\* The steps of GetPendingCount.
Reads ==
  \/ \E p \in Procs : GetPendingCount(p)
  \/ \E p \in Procs : ReturnCount(p)

Next == Writes \/ Reads

Spec == Init /\ [][Next]_vars

\* A HasParentMessageKey call on any msgContext, the buffer left alone.
KeyInit ==
  /\ InitAlbumBuffer
  /\ envelope \in Envelopes
  /\ extracted = NotCalled

KeySpec == KeyInit /\ [][Extract]_vars

\* flushAlbum(k) takes the mutex for one of the callbacks waiting.
FlushLocks(k) ==
  \E cb \in BagToSet(pending) : cb.albumID = k /\ FlushLocked(cb)

\* The scheduling the Go runtime gives: time passes, a timer that is due
\* fires, a call inside a critical section leaves it, a webhook call is
\* made, and a goroutine waiting in Lock gets the mutex (sync.Mutex hands
\* it to a starving waiter), although others take it in between.
Fairness ==
  /\ WF_vars(Tick)
  /\ \A k \in Keys : WF_vars(TimerFire(k))
  /\ \A k \in Keys : SF_vars(FlushLocks(k))
  /\ \A p \in Procs : WF_vars(AddAppend(p))

\* The runs without GetPendingCount, under that scheduling.  A reader
\* changes nothing in the store and cannot keep a writer out (CanRLock), so
\* what eventually happens to the albums is decided by these runs.
FairSpec == Init /\ [][Writes]_vars /\ Fairness

------------------------------------------------------------------------------
(* Properties *)

\* The albums currently or formerly handled, by identity.
Ptrs == 1 .. (nextPtr - 1)

\* How many sendEventWithWebHook calls were made for the album ptr.
Sent(ptr) == Cardinality({i \in 1 .. Len(webhooks) : webhooks[i].ptr = ptr})

\* How many flushAlbum executions hold the album ptr for delivery.
Held(ptr) ==
  LET holders == {a \in BagToSet(delivering) : a.ptr = ptr}
  IN IF holders = {} THEN 0
     ELSE LET a == CHOOSE x \in holders : TRUE
          IN IF Cardinality(holders) > 1 THEN 2 ELSE CopiesIn(a, delivering)

\* Whether the album ptr is in the map.
Open(ptr) == \E k \in DOMAIN albums : albums[k].ptr = ptr

\* C1 (as claimed): the AddMessage calls of one id that each arrive, and
\* enter the critical section, less than waitSeconds after the previous one
\* armed the timer, with no CancelAlbum between, end up in one album and so
\* in one flush: none of them but the first finds the id absent and starts
\* a second album.
C1_DebounceOneFlush ==
  \A p \in DOMAIN frames : frames[p].inWindow => ~frames[p].isFirst

\* C2: an album (one *AlbumData, from the AddMessage that creates it to its
\* removal) is never in two places among the map, the flushAlbum executions
\* holding it for delivery and the webhook calls made; so it is handed to
\* sendEventWithWebHook at most once, and never while still in the map.
C2_AtMostOnce ==
  \A ptr \in Ptrs :
    Sent(ptr) + Held(ptr) + (IF Open(ptr) THEN 1 ELSE 0) <= 1

\* C2 witness: an album was delivered while a second callback started by
\* its own timer (fired, Reset by a later AddMessage, fired again) exists.
C2_Witness ==
  \E i \in 1 .. Len(webhooks) :
    \E cb \in BagToSet(pending) : cb.from = webhooks[i].ptr

\* C3 (as claimed): whenever flushAlbum removes an album from the map, at
\* least waitSeconds have passed since the latest AddMessage that created
\* or joined it.
C3_FlushOnlyAfterInactivity ==
  [][\A k \in DOMAIN albums :
       (k \notin DOMAIN albums' /\ delivering' # delivering)
         => sinceAdd[k] >= waitSeconds]_vars

\* The step is AddLookup by p: the mutex goes from free to p.
AddEnters(p) == lock = "free" /\ lock' = p

\* The step is AddAppend by p: p releases the mutex.
AddReturns(p) == lock = p /\ lock' = "free"

\* The step is a flushAlbum taking the mutex for the callback cb.
FlushRuns(cb) == BagIn(cb, pending) /\ pending' = pending (-) SetToBag({cb})

\* The step is a CancelAlbum(k) that finds k in the map.
CancelFinds(k) ==
  /\ cancels' = cancels + 1
  /\ k \in DOMAIN albums
  /\ cancelled' = cancelled \cup {albums[k].ptr}

\* The step is a CancelAlbum that does not find its id in the map.
CancelMisses == cancels' = cancels + 1 /\ cancelled' = cancelled

\* The step hands the album a, removed from the map, to the delivery part
\* of flushAlbum.
Removes(a) == CopiesIn(a, delivering') > CopiesIn(a, delivering)

\* The step is a sendEventWithWebHook call.
Sends == Len(webhooks') = Len(webhooks) + 1

\* The album of id k is in the map before and after the step.
Stays(k) ==
  /\ k \in DOMAIN albums /\ k \in DOMAIN albums'
  /\ albums'[k].ptr = albums[k].ptr

\* C4 (as claimed): a CancelAlbum(k) that finds k in the map removes it and
\* lowers the pending count by one; no album removed by CancelAlbum is ever
\* held for delivery or delivered; and a flushAlbum started by the timer of
\* a cancelled album, running after the cancel, changes nothing.
C4_CancelThenFlushNoOp ==
  [][ /\ \A k \in DOMAIN albums :
           CancelFinds(k) => /\ albums' = Delete(albums, k)
                            /\ PendingCount(albums') = PendingCount(albums) - 1
      /\ \A ptr \in cancelled : Sent(ptr) = 0 /\ Held(ptr) = 0
      /\ \A cb \in BagToSet(pending) :
           (cb.from \in cancelled /\ FlushRuns(cb))
             => UNCHANGED <<albums, delivering, webhooks>>
    ]_vars

\* C5: the messages of an album in the map change only by the AddAppend of
\* a call for its id, which puts its one message at the end; a new album
\* starts empty; flushAlbum takes the messages as they are in the map when
\* it removes the album, and the webhook carries them in that order.
C5_OrderingAppendOnly ==
  [][ /\ \A k \in Keys :
           /\ Stays(k) =>
                albums'[k].Messages =
                  IF \E p \in Procs : AddReturns(p) /\ frames[p].albumID = k
                  THEN Append(albums[k].Messages, frames[lock].msg)
                  ELSE albums[k].Messages
           /\ (k \notin DOMAIN albums /\ k \in DOMAIN albums')
                => albums'[k].Messages = << >>
      /\ \A a \in BagToSet(delivering') :
           Removes(a) => \E k \in DOMAIN albums \ DOMAIN albums' :
                            /\ a.ptr = albums[k].ptr
                            /\ a.Messages = albums[k].Messages
      /\ Sends => \E a \in BagToSet(delivering) :
                    LET w == webhooks'[Len(webhooks')]
                    IN /\ delivering' = delivering (-) SetToBag({a})
                       /\ w.ptr = a.ptr
                       /\ w.postmap.images = a.Messages
    ]_vars

\* C5 witness: a webhook was sent whose first two images carry the same id.
C5_Witness ==
  \E i \in 1 .. Len(webhooks) :
    LET images == webhooks[i].postmap.images
    IN Len(images) >= 2 /\ images[1].ID = images[2].ID

\* C6: AddMessage sets isFirst exactly when its id is not in the map as it
\* enters the critical section, and returns it unchanged; so a call inside
\* the critical section has isFirst exactly when the album holds no message
\* yet (it has just been created), and every album nobody is appending to
\* holds the message of the one call that created it.
C6_FirstCallFlag ==
  /\ [](\A p \in DOMAIN frames :
          /\ frames[p].albumID \in DOMAIN albums
          /\ frames[p].isFirst <=> albums[frames[p].albumID].Messages = << >>)
  /\ [](\A k \in DOMAIN albums :
          albums[k].Messages = << >> =>
            \E p \in DOMAIN frames : frames[p].albumID = k)
  /\ [][ /\ \A p \in Procs :
              AddEnters(p) =>
                (frames'[p].isFirst <=> frames'[p].albumID \notin DOMAIN albums)
         /\ \A p \in DOMAIN frames :
              p \in DOMAIN frames' => frames'[p] = frames[p]
       ]_vars

\* C6 witness: a call is told isFirst for an id whose earlier album has
\* been delivered (a second lifetime of the id).
C6_Witness ==
  \E p \in DOMAIN frames :
    /\ frames[p].isFirst
    /\ \E i \in 1 .. Len(webhooks) :
         webhooks[i].postmap.albumId = frames[p].albumID

\* C7: an AddMessage that creates the album gives it the caption of its
\* metadata; one that joins keeps a caption that is not empty and otherwise
\* takes the caption of its metadata; no other step changes the caption of
\* an album in the map; flushAlbum and the webhook carry the caption the
\* album has when it is removed.
C7_CaptionMonotonic ==
  [][ /\ \A k \in Keys :
           /\ Stays(k) =>
                albums'[k].Caption =
                  IF albums[k].Caption = ""
                     /\ \E p \in Procs : AddEnters(p) /\ frames'[p].albumID = k
                  THEN frames'[lock'].metadata.Caption
                  ELSE albums[k].Caption
           /\ (k \notin DOMAIN albums /\ k \in DOMAIN albums')
                => albums'[k].Caption = frames'[lock'].metadata.Caption
      /\ \A a \in BagToSet(delivering') :
           Removes(a) => \E k \in DOMAIN albums \ DOMAIN albums' :
                            /\ a.ptr = albums[k].ptr
                            /\ a.Caption = albums[k].Caption
      /\ Sends => \E a \in BagToSet(delivering) :
                    LET w == webhooks'[Len(webhooks')]
                    IN /\ delivering' = delivering (-) SetToBag({a})
                       /\ w.ptr = a.ptr
                       /\ w.postmap.caption = a.Caption
    ]_vars

\* C7 witness: a call with caption "b" has joined an album whose caption
\* is "a", and the album still has caption "a".
C7_Witness ==
  \E p \in DOMAIN frames :
    /\ ~frames[p].isFirst
    /\ frames[p].metadata.Caption = "b"
    /\ albums[frames[p].albumID].Caption = "a"

\* The step is an operation on the id k that finds work to do: an
\* AddMessage entering or returning, the timer of k firing, a flushAlbum(k)
\* taking the mutex, or a CancelAlbum(k) with k in the map.
OnKey(k) ==
  \/ \E p \in Procs : AddEnters(p) /\ frames'[p].albumID = k
  \/ \E p \in Procs : AddReturns(p) /\ frames[p].albumID = k
  \/ \E cb \in BagToSet(pending) \cup BagToSet(pending') :
       cb.albumID = k /\ CopiesIn(cb, pending') # CopiesIn(cb, pending)
  \/ CancelFinds(k)

\* The entry of the id j in the map is the same before and after the step.
Untouched(j) ==
  /\ j \in DOMAIN albums <=> j \in DOMAIN albums'
  /\ j \in DOMAIN albums => albums'[j] = albums[j]

\* C8: an operation on one id leaves the album of every other id as it is
\* (messages, caption, metadata and timer); an album is kept under its own
\* id, a flushAlbum(k) removes the album of k only, and the webhook carries
\* the id and the messages of the album removed.
C8_KeysIndependent ==
  [][ /\ \A k \in Keys : OnKey(k) => \A j \in Keys \ {k} : Untouched(j)
      /\ CancelMisses => \A j \in Keys : Untouched(j)
      /\ \A k \in DOMAIN albums' : albums'[k].AlbumID = k
      /\ \A a \in BagToSet(delivering') :
           Removes(a) => \E cb \in BagToSet(pending) :
                            /\ FlushRuns(cb)
                            /\ a.AlbumID = cb.albumID
                            /\ a.ptr = albums[cb.albumID].ptr
                            /\ a.Messages = albums[cb.albumID].Messages
      /\ Sends => \E a \in BagToSet(delivering) :
                    LET w == webhooks'[Len(webhooks')]
                    IN /\ delivering' = delivering (-) SetToBag({a})
                       /\ w.postmap.albumId = a.AlbumID
                       /\ w.postmap.images = a.Messages
    ]_vars

\* C8 witness: the album of k1 has been delivered while the album of k2,
\* holding a message, is still in the map.
C8_Witness ==
  /\ \E i \in 1 .. Len(webhooks) : webhooks[i].postmap.albumId = "k1"
  /\ "k2" \in DOMAIN albums
  /\ Len(albums["k2"].Messages) >= 1

\* C9: a flushAlbum(k) or a CancelAlbum(k) that does not find k in the map
\* changes neither the map (so no album and no timer), nor the callbacks
\* waiting, nor the albums held for delivery, nor the webhooks sent, nor
\* the mutex.
C9_AbsentKeyNoOp ==
  [][ /\ \A cb \in BagToSet(pending) :
           (cb.albumID \notin DOMAIN albums /\ FlushRuns(cb))
             => UNCHANGED <<albums, delivering, webhooks, lock, frames, readers>>
      /\ CancelMisses
           => UNCHANGED <<albums, pending, delivering, webhooks, lock,
                          frames, readers>>
    ]_vars

\* C9 witness: CancelAlbum has run twice and removed the one album ever
\* created, so one of the two calls did not find its id.
C9_Witness ==
  /\ cancels = 2
  /\ nextPtr = 2
  /\ cancelled = {1}

Size(m) == Cardinality(DOMAIN m)

\* The step is a GetPendingCount by p taking the read lock.
CountReads(p) == p \notin DOMAIN readers /\ p \in DOMAIN readers'

\* C11: GetPendingCount returns the number of albums in the map, which is
\* the number of ids created by an AddMessage and not yet removed: it is 0
\* before the first AddMessage; an AddMessage that creates raises it by one
\* and one that joins leaves it; a flushAlbum or CancelAlbum that finds its
\* id lowers it by one; no other step changes it; and the value a
\* GetPendingCount reads is that number for as long as the call holds the
\* read lock.
C11_PendingCountOpen ==
  /\ [](adds = 0 => Size(albums) = 0)
  /\ [](\A p \in DOMAIN readers : readers[p] = Size(albums))
  /\ [][ /\ \A p \in Procs :
              /\ CountReads(p) => readers'[p] = Size(albums)
              /\ AddEnters(p) =>
                   Size(albums') =
                     IF frames'[p].isFirst THEN Size(albums) + 1
                     ELSE Size(albums)
         /\ \A cb \in BagToSet(pending) :
              FlushRuns(cb) =>
                Size(albums') =
                  IF cb.albumID \in DOMAIN albums THEN Size(albums) - 1
                  ELSE Size(albums)
         /\ \A k \in DOMAIN albums :
              CancelFinds(k) => Size(albums') = Size(albums) - 1
         /\ CancelMisses => Size(albums') = Size(albums)
         /\ (/\ \A p \in Procs : ~AddEnters(p)
             /\ \A cb \in BagToSet(pending) : ~FlushRuns(cb)
             /\ cancels' = cancels)
              => Size(albums') = Size(albums)
       ]_vars

\* C11 witness: a GetPendingCount has read 1 while the one album in the map
\* holds two messages (a creating and a joining AddMessage).
C11_Witness ==
  \E p \in DOMAIN readers :
    /\ readers[p] = 1
    /\ \E k \in DOMAIN albums : Len(albums[k].Messages) = 2

\* C12: the payload of a webhook is a snapshot of the album removed: a
\* flushAlbum(k) that finds k takes the album as it is in the map at that
\* step; the webhook sent for it has albumId k, images the messages the
\* album had when removed, totalImages their number and caption the caption
\* it had when removed; an AddMessage changes neither an album held for
\* delivery nor a webhook sent, and one that finds its id removed puts its
\* message in a new album.
C12_PayloadSnapshot ==
  /\ [](\A i \in 1 .. Len(webhooks) :
          webhooks[i].postmap.totalImages = Len(webhooks[i].postmap.images))
  /\ [][ /\ \A a \in BagToSet(delivering') :
              Removes(a) =>
                \E cb \in BagToSet(pending) :
                  /\ FlushRuns(cb)
                  /\ cb.albumID \in DOMAIN albums
                  /\ a.AlbumID = cb.albumID
                  /\ a.Messages = albums[cb.albumID].Messages
                  /\ a.Caption = albums[cb.albumID].Caption
                  /\ a.ptr = albums[cb.albumID].ptr
         /\ Sends =>
              \E a \in BagToSet(delivering) :
                LET w == webhooks'[Len(webhooks')]
                IN /\ delivering' = delivering (-) SetToBag({a})
                   /\ w.ptr = a.ptr
                   /\ w.postmap.albumId = a.AlbumID
                   /\ w.postmap.images = a.Messages
                   /\ w.postmap.totalImages = Len(a.Messages)
                   /\ w.postmap.caption = a.Caption
         /\ \A i \in 1 .. Len(webhooks) :
              Len(webhooks') >= i /\ webhooks'[i] = webhooks[i]
         /\ \A p \in Procs :
              /\ (AddEnters(p) \/ AddReturns(p))
                   => UNCHANGED <<delivering, webhooks>>
              /\ (AddEnters(p) /\ frames'[p].albumID \notin DOMAIN albums)
                   => /\ albums'[frames'[p].albumID].ptr = nextPtr
                      /\ \A a \in BagToSet(delivering) : a.ptr < nextPtr
                      /\ \A i \in 1 .. Len(webhooks) :
                           webhooks[i].ptr < nextPtr
       ]_vars

\* C12 witness: a webhook with two images has been sent for an id, and an
\* AddMessage of that id since has put its message in a new album.
C12_Witness ==
  \E i \in 1 .. Len(webhooks) :
    LET k == webhooks[i].postmap.albumId
    IN /\ webhooks[i].postmap.totalImages = 2
       /\ k \in DOMAIN albums
       /\ albums[k].ptr > webhooks[i].ptr
       /\ Len(albums[k].Messages) = 1

\* The value at messageAssociation.parentMessageKey.ID of the envelope e,
\* where every level down to it is there and is a map.
HasPath(e) ==
  /\ e.kind = "map"
  /\ "messageAssociation" \in DOMAIN e.m
  /\ e.m["messageAssociation"].kind = "map"
  /\ "parentMessageKey" \in DOMAIN e.m["messageAssociation"].m
  /\ e.m["messageAssociation"].m["parentMessageKey"].kind = "map"
  /\ "ID" \in DOMAIN e.m["messageAssociation"].m["parentMessageKey"].m
AtPath(e) == e.m["messageAssociation"].m["parentMessageKey"].m["ID"]

\* C13: HasParentMessageKey returns (id, true) exactly when msgContext is
\* not nil and has a map under "messageAssociation" that has a map under
\* "parentMessageKey" that has a string under "ID" which is not empty, and
\* id is then that string; in every other case it returns ("", false); and
\* the call leaves msgContext as it is.
C13_KeyExtraction ==
  /\ [](extracted.called =>
          IF HasPath(envelope) /\ AtPath(envelope).kind = "string"
             /\ AtPath(envelope).str # ""
          THEN extracted.ok /\ extracted.id = AtPath(envelope).str
          ELSE ~extracted.ok /\ extracted.id = "")
  /\ [][envelope' = envelope]_vars

\* C13 witness: a call has returned ("k2", true) for a msgContext that
\* also has entries other than the path.
C13_Witness ==
  /\ extracted.called /\ extracted.ok /\ extracted.id = "k2"
  /\ "conversation" \in DOMAIN envelope.m
  /\ "id" \in DOMAIN envelope.m["messageAssociation"].m["parentMessageKey"].m

\* The flush tasks outstanding for the id k: the running timer of its
\* album, and the flushAlbum(k) goroutines started and not yet run.
Tasks(k) ==
  (IF k \in DOMAIN albums /\ albums[k].Timer.armed THEN 1 ELSE 0)
    + Cardinality({cb \in BagToSet(pending) : cb.albumID = k
                                               /\ CopiesIn(cb, pending) = 1})
    + 2 * Cardinality({cb \in BagToSet(pending) : cb.albumID = k
                                                   /\ CopiesIn(cb, pending) > 1})

\* C14 (as claimed): whenever nobody is inside the critical section, an id
\* in the map has exactly one flush task outstanding and an id not in the
\* map has none.
C14_OneTaskPerAlbum ==
  lock = "free" =>
    \A k \in Keys : Tasks(k) = IF k \in DOMAIN albums THEN 1 ELSE 0

\* C15: a flushAlbum that is building its payload or is inside
\* sendEventWithWebHook does not hold the mutex: while an album is held for
\* delivery, however long, an AddMessage or CancelAlbum of any id (that of
\* the album delivered too) can take the mutex as soon as no caller and no
\* reader holds it, an AddMessage inside the critical section can finish,
\* and a GetPendingCount can take the read lock when no writer holds or
\* waits for the mutex, and can return.
C15_DeliveryOutsideLock ==
  delivering # EmptyBag =>
    /\ (lock = "free" /\ DOMAIN readers = {}) =>
         \A p \in Procs, k \in Keys :
           /\ adds < MaxAdds =>
                \A in \in Inputs :
                  ENABLED AddLookup(p, k, Item(in.msg, adds + 1), in.metadata)
           /\ cancels < MaxCancels => ENABLED CancelAlbum(p, k)
    /\ \A p \in Procs :
         /\ lock = p => ENABLED AddAppend(p)
         /\ (lock = "free" /\ pending = EmptyBag /\ p \notin DOMAIN readers)
              => ENABLED GetPendingCount(p)
         /\ p \in DOMAIN readers => ENABLED ReturnCount(p)

\* C15 witness: while an album of an id is still held for delivery, an
\* AddMessage of the same id has entered and returned (its message is in a
\* new album) and a GetPendingCount holds the read lock.
C15_Witness ==
  \E a \in BagToSet(delivering) :
    /\ a.AlbumID \in DOMAIN albums
    /\ albums[a.AlbumID].ptr > a.ptr
    /\ Len(albums[a.AlbumID].Messages) = 1
    /\ lock = "free"
    /\ DOMAIN readers # {}

\* The timer of the album of k has fired and the flushAlbum(k) it started,
\* cb, has not run yet.
Started(cb, k) ==
  /\ BagIn(cb, pending)
  /\ cb.albumID = k
  /\ k \in DOMAIN albums
  /\ cb.from = albums[k].ptr

\* An AddMessage that enters while the flushAlbum of its album has started
\* finds the album and joins it.
LateAddJoins ==
  \A p \in Procs :
    (AddEnters(p) /\ \E cb \in BagToSet(pending) :
                       Started(cb, frames'[p].albumID))
      => /\ ~frames'[p].isFirst
         /\ Stays(frames'[p].albumID)

\* C16 (as claimed): an AddMessage(k) that enters the critical section
\* after the timer of k's album has fired and before the flushAlbum started
\* has removed the album joins it (returns false), and that flushAlbum then
\* delivers the album without the late message: with the messages that had
\* arrived when the timer fired.
C16_LateAddLeftOut ==
  [][ /\ LateAddJoins
      /\ \A cb \in BagToSet(pending) :
           (FlushRuns(cb) /\ Started(cb, cb.albumID))
             => \E a \in BagToSet(delivering') :
                  /\ Removes(a)
                  /\ a.Messages =
                       SubSeq(albums[cb.albumID].Messages, 1, cb.seen)
    ]_vars

\* C16 (amended): such an AddMessage joins the album (returns false) and
\* puts its message at the end of it; the flushAlbum started, if the album
\* is still in the map when it gets the mutex, removes it with all its
\* messages, those of the late calls included, and the webhook it sends (the
\* album having a client) carries them all.
C16_LateAddDelivered ==
  /\ [][ /\ LateAddJoins
         /\ \A cb \in BagToSet(pending) :
              (FlushRuns(cb) /\ Started(cb, cb.albumID))
                => \E a \in BagToSet(delivering') :
                     /\ Removes(a)
                     /\ a.by = cb
                     /\ a.Messages = albums[cb.albumID].Messages
                     /\ Len(a.Messages) >= cb.seen
         /\ Sends => \E a \in BagToSet(delivering) :
                       LET w == webhooks'[Len(webhooks')]
                       IN /\ delivering' = delivering (-) SetToBag({a})
                          /\ w.by = a.by /\ w.ptr = a.ptr
                          /\ w.postmap.images = a.Messages
       ]_vars
  /\ [](\A p \in DOMAIN frames :
          ~frames[p].isFirst =>
            \A cb \in BagToSet(pending) :
              cb.from = albums[frames[p].albumID].ptr
                => cb.seen <= Len(albums[frames[p].albumID].Messages) + 1)

\* C16 witness: a webhook has been sent by the flushAlbum an album's own
\* timer started, with more images than had arrived when the timer fired.
C16_Witness ==
  \E i \in 1 .. Len(webhooks) :
    /\ webhooks[i].by.from = webhooks[i].ptr
    /\ Len(webhooks[i].postmap.images) > webhooks[i].by.seen

\* C17: whenever nobody is inside the critical section every album in the
\* map holds at least one message; every album flushAlbum has removed holds
\* at least one, and every webhook sent has totalImages of at least one and
\* as many images.
C17_NonEmptyGroups ==
  /\ lock = "free" => \A k \in DOMAIN albums : Len(albums[k].Messages) >= 1
  /\ \A a \in BagToSet(delivering) : Len(a.Messages) >= 1
  /\ \A i \in 1 .. Len(webhooks) :
       /\ webhooks[i].postmap.totalImages >= 1
       /\ Len(webhooks[i].postmap.images) >= 1

\* C17 witness: a webhook with one image has been sent, an album with one
\* message is in the map, and an AddMessage that has just created the album
\* of the other id, still empty, is inside the critical section.
C17_Witness ==
  /\ \E i \in 1 .. Len(webhooks) : webhooks[i].postmap.totalImages = 1
  /\ \E k \in DOMAIN albums : Len(albums[k].Messages) = 1
  /\ \E p \in DOMAIN frames :
       frames[p].isFirst /\ albums[frames[p].albumID].Messages = << >>

\* The fields of an album that the AddMessage creating it sets for good.
Seed(album) ==
  [AlbumID |-> album.AlbumID, ChatJID |-> album.ChatJID,
   SenderJID |-> album.SenderJID, SenderAlt |-> album.SenderAlt,
   Timestamp |-> album.Timestamp, UserID |-> album.UserID,
   Token |-> album.Token, MyCli |-> album.MyCli]

\* C18: an AddMessage of an id that is in the map changes, of its album,
\* only the timer and the caption as it enters (the caption only if it was
\* empty) and only the messages as it returns (its one message appended);
\* the id, the chat, the two senders, the timestamp, the user, the token
\* and the client stay as the creating call set them from its metadata,
\* whatever the metadata of the later call holds.
C18_JoinFrame ==
  [][ /\ \A p \in Procs :
           /\ AddEnters(p) =>
                LET k == frames'[p].albumID
                IN IF k \in DOMAIN albums
                   THEN /\ Seed(albums'[k]) = Seed(albums[k])
                        /\ albums'[k].Messages = albums[k].Messages
                        /\ albums'[k].ptr = albums[k].ptr
                        /\ albums[k].Caption # ""
                             => albums'[k].Caption = albums[k].Caption
                        /\ albums'[k].Caption
                             \in {albums[k].Caption, frames'[p].metadata.Caption}
                   ELSE /\ Seed(albums'[k]).AlbumID = k
                        /\ \A f \in DOMAIN Seed(albums'[k]) \ {"AlbumID"} :
                             Seed(albums'[k])[f] = frames'[p].metadata[f]
           /\ AddReturns(p) =>
                LET k == frames[p].albumID
                IN albums'[k] =
                     [albums[k] EXCEPT
                        !.Messages = Append(@, frames[p].msg)]
      /\ \A k \in Keys : Stays(k) => Seed(albums'[k]) = Seed(albums[k])
    ]_vars

\* C18 witness: a call with blank metadata (no chat, no client) has joined
\* an album created with a chat and a client, which it still has.
C18_Witness ==
  \E p \in DOMAIN frames :
    /\ ~frames[p].isFirst
    /\ frames[p].metadata.ChatJID = ""
    /\ frames[p].metadata.MyCli = "nil"
    /\ albums[frames[p].albumID].ChatJID = "chat1"
    /\ albums[frames[p].albumID].MyCli = "cli1"

\* The step is the flushAlbum holding the album a returning.
Finishes(a) ==
  BagIn(a, delivering) /\ delivering' = delivering (-) SetToBag({a})

\* The step makes one sendEventWithWebHook call, for the album a, with the
\* client of a and the payload built from a.
Delivers(a) ==
  /\ Sends
  /\ LET w == webhooks'[Len(webhooks')]
     IN /\ w.ptr = a.ptr
        /\ w.mycli = a.MyCli
        /\ w.postmap.albumId = a.AlbumID
        /\ w.postmap.chat = a.ChatJID
        /\ w.postmap.images = a.Messages
  /\ SubSeq(webhooks', 1, Len(webhooks)) = webhooks

\* An AddMessage is taken whatever its metadata holds: one that finds its
\* id absent makes an album with the fields of the metadata, blank or not.
TakesAnyMetadata ==
  \A p \in Procs :
    (AddEnters(p) /\ frames'[p].albumID \notin DOMAIN albums)
      => LET album == albums'[frames'[p].albumID]
         IN \A f \in DOMAIN Seed(album) \ {"AlbumID"} :
              album[f] = frames'[p].metadata[f]

\* C19 (as claimed): an AddMessage with blank metadata, no client included,
\* still makes its album, with blank fields; and every flushAlbum that has
\* removed an album makes one sendEventWithWebHook call, with the payload
\* and the client of that album.
C19_EveryFlushDelivers ==
  [][ /\ TakesAnyMetadata
      /\ \A a \in BagToSet(delivering) : Finishes(a) => Delivers(a)
    ]_vars

\* C19 (amended): an AddMessage with blank metadata still makes its album;
\* a flushAlbum that has removed an album with a client makes one
\* sendEventWithWebHook call, with the payload and the client of that
\* album, and no album gets a second; one that has removed an album
\* without a client (MyCli nil) makes no call, and the album is dropped.
C19_FlushDeliversWithClient ==
  /\ [][ /\ TakesAnyMetadata
         /\ \A a \in BagToSet(delivering) :
              Finishes(a) =>
                IF a.MyCli # "nil" THEN Delivers(a)
                ELSE webhooks' = webhooks
         /\ Sends => \E a \in BagToSet(delivering) : Finishes(a)
       ]_vars
  /\ [](\A i \in 1 .. Len(webhooks) :
          webhooks[i].mycli # "nil" /\ Sent(webhooks[i].ptr) = 1)

\* C19 witness: an album has been delivered, and another, removed by
\* flushAlbum, is neither in the map, nor cancelled, nor held, nor
\* delivered: it had no client.
C19_Witness ==
  /\ Len(webhooks) >= 1
  /\ \E ptr \in Ptrs :
       /\ ~Open(ptr) /\ ptr \notin cancelled
       /\ Held(ptr) = 0 /\ Sent(ptr) = 0

\* The places of the list msgs that hold the item n.
At(msgs, n) == {i \in 1 .. Len(msgs) : msgs[i].seq = n}

\* The places that hold the item n, given the map m, the albums held for
\* delivery d and the webhooks sent w: each with the id it is under.
Places(n, m, d, w) ==
  UNION {{<<"open", m[k].ptr, k, i>> : i \in At(m[k].Messages, n)}
           : k \in DOMAIN m}
  \cup UNION {{<<"held", a.ptr, a.AlbumID, i>> : i \in At(a.Messages, n)}
                : a \in BagToSet(d)}
  \cup UNION {{<<"sent", j, w[j].postmap.albumId, i>>
                  : i \in At(w[j].postmap.images, n)}
                : j \in 1 .. Len(w)}

\* The items that are in some place, and the ids an item is under.
Kept(m, d, w) == {n \in 1 .. MaxAdds : Places(n, m, d, w) # {}}
Under(n, m, d, w) == {pl[3] : pl \in Places(n, m, d, w)}

\* No item is in two places, none is held by two flushAlbum executions,
\* and the item of a call still inside the critical section is in none.
NoItemTwice ==
  /\ \A n \in 1 .. MaxAdds :
       Cardinality(Places(n, albums, delivering, webhooks)) <= 1
  /\ \A a \in BagToSet(delivering) : CopiesIn(a, delivering) = 1
  /\ \A p \in DOMAIN frames :
       Places(frames[p].msg.seq, albums, delivering, webhooks) = {}

\* An AddMessage that returns puts its item in the album of its id, a
\* CancelAlbum takes away the items of the album it removes, and an item
\* that stays is under the id it was under.
ItemsMoveWhole ==
  LET kept == Kept(albums, delivering, webhooks)
      kept1 == Kept(albums', delivering', webhooks')
  IN /\ \A p \in Procs :
          AddReturns(p) =>
            /\ kept1 = kept \cup {frames[p].msg.seq}
            /\ Under(frames[p].msg.seq, albums', delivering', webhooks')
                 = {frames[p].albumID}
     /\ \A k \in DOMAIN albums :
          CancelFinds(k) =>
            kept1 = kept \ {albums[k].Messages[i].seq :
                              i \in 1 .. Len(albums[k].Messages)}
     /\ CancelMisses => kept1 = kept
     /\ \A n \in kept \cap kept1 :
          Under(n, albums', delivering', webhooks')
            = Under(n, albums, delivering, webhooks)

\* The step is a CancelAlbum, or an AddMessage returning.
CancelsOrReturns ==
  (cancels' = cancels + 1) \/ (\E p \in Procs : AddReturns(p))

\* C20 (as claimed): every item of an AddMessage that has returned is in
\* exactly one place, an album in the map or an album that flushAlbum has
\* removed and is delivering or has delivered, unless a CancelAlbum has
\* removed its album; it is there once, under the id it was added to, and
\* nothing but a CancelAlbum takes an item away.
C20_ItemConservation ==
  /\ []NoItemTwice
  /\ [][ /\ ItemsMoveWhole
         /\ ~CancelsOrReturns =>
              Kept(albums', delivering', webhooks')
                = Kept(albums, delivering, webhooks)
       ]_vars

\* C20 (amended): as claimed, but for the albums without a client: the
\* items of an album that flushAlbum has removed and that has no client
\* (MyCli nil) are dropped, with no webhook, when that flushAlbum returns.
C20_ItemsKeptUnlessNoClient ==
  /\ []NoItemTwice
  /\ [][ /\ ItemsMoveWhole
         /\ ~CancelsOrReturns =>
              Kept(albums', delivering', webhooks')
                = Kept(albums, delivering, webhooks)
                    \ UNION {{a.Messages[i].seq : i \in 1 .. Len(a.Messages)}
                               : a \in {x \in BagToSet(delivering) :
                                          Finishes(x) /\ x.MyCli = "nil"}}
       ]_vars

\* C20 witness: of the three items of a run one has been delivered, one
\* is in an album in the map, and one was in an album that was cancelled.
C20_Witness ==
  /\ adds = 3 /\ frames = << >>
  /\ cancelled # {}
  /\ \E n \in 1 .. 3 :
       \E pl \in Places(n, albums, delivering, webhooks) : pl[1] = "sent"
  /\ \E n \in 1 .. 3 :
       \E pl \in Places(n, albums, delivering, webhooks) : pl[1] = "open"
  /\ Cardinality(Kept(albums, delivering, webhooks)) = 2

====
